---------------------------- MODULE Spec2Model ----------------------------
(***************************************************************************)
(* Model of imghash::Database::Impl (src/db.cpp): the vantage-point index  *)
(* kept in an SQLite database.  The tables are modelled by their rows, the *)
(* prepared statements by what they select or write, a Transaction by a    *)
(* working copy of the tables that is discarded when the handler throws.   *)
(*                                                                         *)
(* The file under src/ is work in progress: some statements are used under *)
(* a name that differs from the one they are declared under.  They are     *)
(* read as the declared statement that does the same job:                  *)
(*   increment_count       = upd_count        get_vantage_points = sel_vps *)
(*   insert_vantage_point  = ins_vp           clear_query   = del_query    *)
(*   get_all_point_values  = sel_all_points   insert_query  = ins_query    *)
(*   update_point          = upd_point        insert_file   = ins_item     *)
(*   update_file           = upd_item         "files" count = items count  *)
(*   get_file_by_path : item row by its path  dists = vp_dists             *)
(***************************************************************************)
EXTENDS Integers, Sequences, FiniteSets, TLC

\* ---------------------------------------------------------------- bounds
\* Width of int / uint32_t / int32_t in the model (32 in the program).
IntBits == 5

\* ------------------------------------------------------------ input sets
\* Point values (hashes) of the reference domain.
Values == {"A", "B"}
\* A value whose distance to every other value does not fit an int, and the
\* values of the runs that use it.
FarValue == "F"
OverflowValues == {"A", FarValue}
\* Item keys (paths).
Items == {"f1", "f2"}
\* Query radii and limits.
Radii == {0, 3}
Limits == {0, 1}
\* The scenario of three values at distances d(A,B) = 2, d(A,C) = 10,
\* d(B,C) = 9: each value with its own key, the vantage point, the radii and
\* the limit of its queries.
ScenarioPairs == {<<"A", "kA">>, <<"B", "kB">>, <<"C", "kC">>}
ScenarioVantage == "A"
ScenarioRadii == {0, 3}
ScenarioLimits == {10}
\* Sample sizes of find_vantage_point.
SampleSizes == {0, 5}

\* ------------------------------------------------------ integer widths
TwoW == 2 ^ IntBits
INT_MAX == 2 ^ (IntBits - 1) - 1
UINT_MAX == TwoW - 1
\* DEFAULT 0x7FFFFFFF of a column added by str_add_points_col
DIST_DEFAULT == INT_MAX

\* static_cast<int>(x)
ToInt(x) == LET m == x % TwoW IN IF m > INT_MAX THEN m - TwoW ELSE m
\* conversion to uint32_t
ToUint(x) == x % TwoW

\* Hash::distance: the metric supplied by the hash library.
Hash_distance(p1, p2) ==
    IF p1 = p2 THEN 0
    ELSE IF FarValue \in {p1, p2} THEN INT_MAX + 2
    ELSE IF {p1, p2} = {"A", "B"} THEN 2
    ELSE IF {p1, p2} = {"A", "C"} THEN 10
    ELSE 9

get_distance(p1, p2) == ToInt(Hash_distance(p1, p2))

\* ---------------------------------------------------------------- state
VARIABLES
    db,                \* the database file: the tables' rows
    vp_ids_,           \* cached vantage-point ids
    insert_point,      \* cached INSERT statement: the ids it was made for
    partition_points,  \* cached partition SELECT: the ids it was made for
    last               \* the last call: arguments, outcome, result

vars == <<db, vp_ids_, insert_point, partition_points, last>>

\* An empty stmt_ptr.  A made statement is the sequence of vantage-point ids
\* its columns were generated from; ids start at 1.
NoStmt == <<0>>

Range(s) == {s[i] : i \in DOMAIN s}

NoCall == [op |-> "open", value |-> "", item |-> "", radius |-> 0, limit |-> 0,
           sample_size |-> 0, failAt |-> 0, err |-> "none", result |-> <<>>]

\* The tables of str_init_tables on a new file.  A row's id is its position
\* (INTEGER PRIMARY KEY, rows are never deleted).
\*   mvp_points          rows [value, d]; d[c] is the column "d<c>"
\*   points_cols         the c for which ALTER TABLE has added a column "d<c>"
\*   mvp_vantage_points  the values, in id order
\*   mvp_items           rows [path, point_id]
\*   mvp_counts          the one row of counts
\*   mvp_query           temp.mvp_query: rows [id, dist]
\*   has_counts          whether mvp_counts holds its row
EmptyDb == [mvp_points |-> <<>>, points_cols |-> {}, mvp_vantage_points |-> <<>>,
            mvp_items |-> <<>>, has_counts |-> FALSE,
            mvp_counts |-> [points |-> 0, vantage_points |-> 0, items |-> 0],
            mvp_query |-> {}]

\* The statement caches of one Impl object.
Cache(ids, ins, part) == [vp_ids_ |-> ids, insert_point |-> ins, partition_points |-> part]

\* str_sel_vp_ids: the ids of mvp_vantage_points in ascending order.
sel_vp_ids(D) == [i \in 1..Len(D.mvp_vantage_points) |-> i]

\* Variant of update_vp_ids that keeps the cached statements.
update_vp_ids_keep(C, vp_ids) == [C EXCEPT !.vp_ids_ = vp_ids]

\* update_vp_ids: replaces the cached ids and drops both cached statements
\* when the ids differ from the cached ones.
update_vp_ids(C, vp_ids) ==
    IF C.vp_ids_ # vp_ids THEN Cache(vp_ids, NoStmt, NoStmt) ELSE C

\* make_insert_point, make_partition_points: a statement over the columns
\* "d<id>" for id in vp_ids, in that order.
make_insert_point(vp_ids) == vp_ids
make_partition_points(vp_ids) == vp_ids

\* A statement names only columns the table has; otherwise it fails to compile
\* or to bind.
StmtFits(D, stmt, nbound) ==
    /\ Range(stmt) \subseteq D.points_cols
    /\ nbound <= Len(stmt)

\* Variant of increment_count that always updates the points column.
increment_count_points(D, col) ==
    [D EXCEPT !.mvp_counts["points"] = @ + 1]

\* str_upd_count: adds one to a column of mvp_counts.
increment_count(D, col) ==
    [D EXCEPT !.mvp_counts[col] = @ + 1]

\* vp_dists_: the distance from each vantage point to p_value, as int32_t.
vp_dists_(D, p_value) ==
    [i \in 1..Len(D.mvp_vantage_points) |->
        ToInt(ToUint(get_distance(D.mvp_vantage_points[i], p_value)))]

\* Position of id in a statement's column list.
ColIndex(stmt, c) == CHOOSE i \in DOMAIN stmt : stmt[i] = c

\* Variant of insert_point_ that counts a point on every call, also when the
\* value is stored already.
insert_point_recount(D, C, p_value, failAt) ==
    LET found == {id \in DOMAIN D.mvp_points : D.mvp_points[id].value = p_value}
        D1 == [D EXCEPT !.mvp_points =
                  Append(@, [value |-> p_value, d |-> vp_dists_(D, p_value)])]
    IN  IF found # {}
        THEN [db |-> [D EXCEPT !.mvp_counts["points"] = @ + 1], cache |-> C,
              err |-> "none", id |-> CHOOSE id \in found : TRUE]
        ELSE [db |-> [D1 EXCEPT !.mvp_counts["points"] = @ + 1], cache |-> C,
              err |-> "none", id |-> Len(D1.mvp_points)]

\* Variant of insert_point_ without the lookup by value, on a table without
\* UNIQUE on value.
insert_point_nolookup(D, C, p_value, failAt) ==
    LET C1 == update_vp_ids(C, sel_vp_ids(D))
        C2 == [C1 EXCEPT !.insert_point = make_insert_point(C1.vp_ids_)]
        D1 == [D EXCEPT !.mvp_points =
                  Append(@, [value |-> p_value,
                             d |-> [c \in D.points_cols |-> DIST_DEFAULT]])]
    IN  IF failAt = 1
        THEN [db |-> D, cache |-> C2, err |-> "StorageError", id |-> 0]
        ELSE IF failAt = 2
        THEN [db |-> D1, cache |-> C2, err |-> "StorageError", id |-> 0]
        ELSE [db |-> increment_count(D1, "points"), cache |-> C2,
              err |-> "none", id |-> Len(D1.mvp_points)]

\* insert_point_: the id of the point with this value, inserting it when it
\* is not there.  failAt = 1: the INSERT fails; 2: the count update fails.
insert_point_(D, C, p_value, failAt) ==
    LET found == {id \in DOMAIN D.mvp_points : D.mvp_points[id].value = p_value}
    IN  IF found # {}
        THEN [db |-> D, cache |-> C, err |-> "none", id |-> CHOOSE id \in found : TRUE]
        ELSE
          LET vp_dists == vp_dists_(D, p_value)
              C1 == update_vp_ids(C, sel_vp_ids(D))
              stmt == IF C1.insert_point = NoStmt
                      THEN make_insert_point(C1.vp_ids_) ELSE C1.insert_point
              C2 == [C1 EXCEPT !.insert_point = stmt]
              row == [value |-> p_value,
                      d |-> [c \in D.points_cols |->
                               IF c \in Range(stmt)
                               THEN vp_dists[ColIndex(stmt, c)]
                               ELSE DIST_DEFAULT]]
              D1 == [D EXCEPT !.mvp_points = Append(@, row)]
          IN  IF ~StmtFits(D, stmt, Len(vp_dists)) \/ failAt = 1
              THEN [db |-> D, cache |-> C2, err |-> "StorageError", id |-> 0]
              ELSE IF failAt = 2
              THEN [db |-> D1, cache |-> C2, err |-> "StorageError", id |-> 0]
              ELSE [db |-> increment_count(D1, "points"), cache |-> C2,
                    err |-> "none", id |-> Len(D1.mvp_points)]

\* Variant of insert_item_ that counts an item on every call, also when the
\* item is stored already.
insert_item_recount(D, point_id, item, failAt) ==
    LET found == {i \in DOMAIN D.mvp_items : D.mvp_items[i].path = item}
    IN  IF found # {}
        THEN [db |-> [D EXCEPT
                         !.mvp_items[CHOOSE i \in found : TRUE].point_id = point_id,
                         !.mvp_counts["items"] = @ + 1],
              err |-> "none"]
        ELSE [db |-> [D EXCEPT
                         !.mvp_items = Append(@, [path |-> item, point_id |-> point_id]),
                         !.mvp_counts["items"] = @ + 1],
              err |-> "none"]

\* Variant of insert_item_ that stores a second row for an item that is there
\* with another point, and counts it.
insert_item_append(D, point_id, item, failAt) ==
    LET found == {i \in DOMAIN D.mvp_items : D.mvp_items[i].path = item}
        D1 == [D EXCEPT !.mvp_items =
                  Append(@, [path |-> item, point_id |-> point_id])]
    IN  IF found # {} /\ D.mvp_items[CHOOSE i \in found : TRUE].point_id = point_id
        THEN [db |-> D, err |-> "none"]
        ELSE IF failAt = 3 THEN [db |-> D, err |-> "StorageError"]
        ELSE IF failAt = 4 THEN [db |-> D1, err |-> "StorageError"]
        ELSE [db |-> increment_count(D1, "items"), err |-> "none"]

\* insert_item_: inserts the item, or updates its point_id when the item is
\* there with another point.  failAt = 3: the INSERT or UPDATE fails;
\* 4: the count update fails.
insert_item_(D, point_id, item, failAt) ==
    LET found == {i \in DOMAIN D.mvp_items : D.mvp_items[i].path = item}
    IN  IF found # {}
        THEN LET i == CHOOSE i \in found : TRUE
                 old_id == D.mvp_items[i].point_id
             IN  IF old_id # point_id
                 THEN IF failAt = 3
                      THEN [db |-> D, err |-> "StorageError"]
                      ELSE [db |-> [D EXCEPT !.mvp_items[i].point_id = point_id],
                            err |-> "none"]
                 ELSE [db |-> D, err |-> "none"]
        ELSE LET D1 == [D EXCEPT !.mvp_items =
                            Append(@, [path |-> item, point_id |-> point_id])]
             IN  IF failAt = 3 THEN [db |-> D, err |-> "StorageError"]
                 ELSE IF failAt = 4 THEN [db |-> D1, err |-> "StorageError"]
                 ELSE [db |-> increment_count(D1, "items"), err |-> "none"]

\* Variant of Transaction without the rollback.
Transaction_norollback(before, after, err) == after

\* Variant of Transaction whose rollback restores mvp_points only.
Transaction_pointsonly(before, after, err) ==
    IF err = "none" THEN after
    ELSE [after EXCEPT !.mvp_points = before.mvp_points,
                       !.points_cols = before.points_cols]

\* SQLite::Transaction: the tables after the handler; the handler's writes
\* are rolled back when it left by an exception before commit().
Transaction(before, after, err) ==
    IF err = "none" THEN after ELSE before

\* Database::Impl::insert
insert(D, C, p_value, item, failAt) ==
    LET r1 == insert_point_(D, C, p_value, failAt)
        r2 == insert_item_(r1.db, r1.id, item, failAt)
    IN  IF r1.err # "none"
        THEN [db |-> Transaction(D, r1.db, r1.err), cache |-> r1.cache, err |-> r1.err]
        ELSE [db |-> Transaction(D, r2.db, r2.err), cache |-> r1.cache, err |-> r2.err]

\* Variant of insert_vantage_point_ for a table without UNIQUE on value.
insert_vantage_point_nounique(D, vp_value, failAt) ==
    LET D1 == [D EXCEPT !.mvp_vantage_points = Append(@, vp_value)]
    IN  IF failAt = 1 THEN [db |-> D, err |-> "StorageError", id |-> 0]
        ELSE IF failAt = 2 THEN [db |-> D1, err |-> "StorageError", id |-> 0]
        ELSE [db |-> [D1 EXCEPT !.mvp_counts["vantage_points"] = @ + 1],
              err |-> "none", id |-> Len(D1.mvp_vantage_points)]

\* Variant of insert_vantage_point_ that also refuses a value of mvp_points.
insert_vantage_point_nopoint(D, vp_value, failAt) ==
    LET D1 == [D EXCEPT !.mvp_vantage_points = Append(@, vp_value)]
    IN  IF \/ vp_value \in Range(D.mvp_vantage_points)
           \/ \E id \in DOMAIN D.mvp_points : D.mvp_points[id].value = vp_value
        THEN [db |-> D, err |-> "DuplicateVantagePoint", id |-> 0]
        ELSE IF failAt = 1 THEN [db |-> D, err |-> "StorageError", id |-> 0]
        ELSE IF failAt = 2 THEN [db |-> D1, err |-> "StorageError", id |-> 0]
        ELSE [db |-> increment_count(D1, "vantage_points"), err |-> "none",
              id |-> Len(D1.mvp_vantage_points)]

\* insert_vantage_point_: appends the value to mvp_vantage_points; the
\* UNIQUE constraint on value makes the INSERT throw when it is there already.
\* failAt = 1: the INSERT fails for another reason; 2: the count update fails.
insert_vantage_point_(D, vp_value, failAt) ==
    LET D1 == [D EXCEPT !.mvp_vantage_points = Append(@, vp_value)]
    IN  IF vp_value \in Range(D.mvp_vantage_points)
        THEN [db |-> D, err |-> "DuplicateVantagePoint", id |-> 0]
        ELSE IF failAt = 1 THEN [db |-> D, err |-> "StorageError", id |-> 0]
        ELSE IF failAt = 2 THEN [db |-> D1, err |-> "StorageError", id |-> 0]
        ELSE [db |-> increment_count(D1, "vantage_points"), err |-> "none",
              id |-> Len(D1.mvp_vantage_points)]

\* str_add_points_col: the new column holds its default in every row.
add_points_col(D, c) ==
    [D EXCEPT !.points_cols = @ \cup {c},
              !.mvp_points = [id \in DOMAIN D.mvp_points |->
                  [value |-> D.mvp_points[id].value,
                   d |-> [x \in D.points_cols \cup {c} |->
                            IF x = c THEN DIST_DEFAULT
                            ELSE D.mvp_points[id].d[x]]]]]

\* Variant of update_points whose loop ends one row early.
update_points_short(D, c, vp_value, n) ==
    [D EXCEPT !.mvp_points = [id \in DOMAIN D.mvp_points |->
        IF id < n
        THEN [D.mvp_points[id] EXCEPT
                 !.d[c] = ToUint(get_distance(vp_value, D.mvp_points[id].value))]
        ELSE D.mvp_points[id]]]

\* The loop of add_points_column_ after n rows: str_upd_point has set column
\* c of the rows 1..n to the distance from the vantage point, bound as uint32_t.
update_points(D, c, vp_value, n) ==
    [D EXCEPT !.mvp_points = [id \in DOMAIN D.mvp_points |->
        IF id <= n
        THEN [D.mvp_points[id] EXCEPT
                 !.d[c] = ToUint(get_distance(vp_value, D.mvp_points[id].value))]
        ELSE D.mvp_points[id]]]

\* add_points_column_: adds column "d<vp_id>" and fills it for every point.
\* failAt = 3: ALTER TABLE fails; 3 + i: the UPDATE of the i-th point fails.
add_points_column_(D, vp_id, vp_value, failAt) ==
    LET D1 == add_points_col(D, vp_id)
        n == Len(D.mvp_points)
    IN  IF vp_id \in D.points_cols \/ failAt = 3
        THEN [db |-> D, err |-> "StorageError"]
        ELSE IF failAt \in 4..(3 + n)
        THEN [db |-> update_points(D1, vp_id, vp_value, failAt - 4),
              err |-> "StorageError"]
        ELSE [db |-> update_points(D1, vp_id, vp_value, n), err |-> "none"]

\* Variant of add_vantage_point whose transaction ends before the column is
\* added and filled.
add_vantage_point_early_commit(D, C, vp_value, failAt) ==
    LET r1 == insert_vantage_point_(D, vp_value, failAt)
        r2 == add_points_column_(r1.db, r1.id, vp_value, failAt)
    IN  IF r1.err # "none"
        THEN [db |-> Transaction(D, r1.db, r1.err), cache |-> C, err |-> r1.err]
        ELSE [db |-> r2.db, cache |-> C, err |-> r2.err]

\* Variant of add_vantage_point that, when it commits, replaces the cached ids
\* and drops the cached statements.
add_vantage_point_invalidate(D, C, vp_value, failAt) ==
    LET r1 == insert_vantage_point_(D, vp_value, failAt)
        r2 == add_points_column_(r1.db, r1.id, vp_value, failAt)
    IN  IF r1.err # "none"
        THEN [db |-> Transaction(D, r1.db, r1.err), cache |-> C, err |-> r1.err]
        ELSE [db |-> Transaction(D, r2.db, r2.err),
              cache |-> IF r2.err = "none"
                        THEN Cache(sel_vp_ids(r2.db), NoStmt, NoStmt) ELSE C,
              err |-> r2.err]

\* Database::Impl::add_vantage_point
add_vantage_point(D, C, vp_value, failAt) ==
    LET r1 == insert_vantage_point_(D, vp_value, failAt)
        r2 == add_points_column_(r1.db, r1.id, vp_value, failAt)
    IN  IF r1.err # "none"
        THEN [db |-> Transaction(D, r1.db, r1.err), cache |-> C, err |-> r1.err]
        ELSE [db |-> Transaction(D, r2.db, r2.err), cache |-> C, err |-> r2.err]

\* A statement without its WHERE clause selects every point.
partition_rows_all(D, stmt, lower_bounds, upper_bounds) == DOMAIN D.mvp_points

\* The rows the partition statement selects: the points whose column
\* "d<id>" lies BETWEEN the bounds bound for it, for every id of the statement.
partition_rows(D, stmt, lower_bounds, upper_bounds) ==
    {id \in DOMAIN D.mvp_points :
        \A i \in DOMAIN stmt :
            /\ i \in DOMAIN lower_bounds
            /\ D.mvp_points[id].d[stmt[i]] >= lower_bounds[i]
            /\ D.mvp_points[id].d[stmt[i]] <= upper_bounds[i]}

\* The rows of mvp_items joined with temp.mvp_query on the point id.
query_hits(D) ==
    {i \in DOMAIN D.mvp_items :
        \E q \in D.mvp_query : q.id = D.mvp_items[i].point_id}

query_dist(D, i) ==
    (CHOOSE q \in D.mvp_query : q.id = D.mvp_items[i].point_id).dist

\* The hits ordered by dist ascending, equal dists by item id.
RECURSIVE order_by_dist(_, _)
order_by_dist(D, S) ==
    IF S = {} THEN <<>>
    ELSE LET m == CHOOSE i \in S : \A j \in S :
                      \/ query_dist(D, i) < query_dist(D, j)
                      \/ (query_dist(D, i) = query_dist(D, j) /\ i <= j)
         IN  <<D.mvp_items[m].path>> \o order_by_dist(D, S \ {m})

\* get_files_by_query: the paths of the items of the points in temp.mvp_query,
\* nearest first, at most limit of them; limit 0 is no limit.
get_files_by_query(D, limit) ==
    LET all == order_by_dist(D, query_hits(D))
    IN  IF limit = 0 \/ limit >= Len(all) THEN all ELSE SubSeq(all, 1, limit)

\* The interval bound of one vantage point at distance d from the query
\* value, in uint32_t arithmetic: d - radius and d + radius are taken only
\* where they do not wrap, and the upper clamp is 0xFFFFFFFF.
lower_bound(d, radius) == IF d <= radius THEN 0 ELSE ToUint(d - radius)

upper_bound_wrap(d, radius) == ToUint(d + radius)

upper_bound(d, radius) ==
    IF d >= ToUint(UINT_MAX - radius) THEN UINT_MAX ELSE ToUint(d + radius)

\* Variant of clear_query that deletes nothing.
clear_query_skip(D) == D

\* str_del_query: deletes every row of temp.mvp_query.
clear_query(D) == [D EXCEPT !.mvp_query = {}]

\* The candidate loop: every row the partition statement yields is stored in
\* temp.mvp_query with its distance to pt; no row is left out.
insert_query_nodist(D, pt, rows) ==
    [D EXCEPT !.mvp_query = @ \cup {[id |-> id, dist |-> 0] : id \in rows}]

insert_query(D, pt, rows) ==
    [D EXCEPT !.mvp_query = @ \cup
        {[id |-> id, dist |-> ToUint(get_distance(pt, D.mvp_points[id].value))] :
            id \in rows}]

\* Database::Impl::query.  failAt = 1: clearing temp.mvp_query fails;
\* 2: storing a candidate in temp.mvp_query fails.
query(D, C, pt, radius, limit, failAt) ==
    LET vps == D.mvp_vantage_points
        vp_ids == sel_vp_ids(D)
        dq == [i \in DOMAIN vps |-> ToUint(get_distance(vps[i], pt))]
        lower_bounds == [i \in DOMAIN vps |-> lower_bound(dq[i], radius)]
        upper_bounds == [i \in DOMAIN vps |-> upper_bound(dq[i], radius)]
        C1 == update_vp_ids(C, vp_ids)
        D1 == clear_query(D)
        stmt == IF C1.partition_points = NoStmt
                THEN make_partition_points(vp_ids) ELSE C1.partition_points
        C2 == [C1 EXCEPT !.partition_points = stmt]
        rows == partition_rows(D1, stmt, lower_bounds, upper_bounds)
        D2 == insert_query(D1, pt, rows)
    IN  IF failAt = 1
        THEN [db |-> Transaction(D, D, "StorageError"), cache |-> C1,
              err |-> "StorageError", result |-> <<>>]
        ELSE IF ~StmtFits(D, stmt, Len(vp_ids))
        THEN [db |-> Transaction(D, D1, "StorageError"), cache |-> C2,
              err |-> "StorageError", result |-> <<>>]
        ELSE IF failAt = 2 /\ rows # {}
        THEN [db |-> Transaction(D, D1, "StorageError"), cache |-> C2,
              err |-> "StorageError", result |-> <<>>]
        ELSE [db |-> Transaction(D, D2, "none"), cache |-> C2,
              err |-> "none", result |-> get_files_by_query(D2, limit)]

\* Database::Impl::find_vantage_point, an unfinished body: it reads a count,
\* does nothing in either branch, commits and flows off the end of a function
\* that returns a point_type, which is undefined behaviour.  The outcomes are
\* the returns of any value of V or of no value at all (an empty vector), and
\* the end of the process; no outcome depends on sample_size or on the stores.
\* failAt = 1: reading the count fails.
find_vantage_point(D, V, sample_size, failAt) ==
    IF failAt = 1 \/ ~D.has_counts
    THEN {[err |-> "StorageError", result |-> <<>>]}
    ELSE {[err |-> "none", result |-> <<v>>] : v \in V}
            \cup {[err |-> "none", result |-> <<>>]}
            \cup {[err |-> "crash", result |-> <<>>]}

\* init_tables: creates the tables that are missing, fills an empty mvp_counts
\* with the tables' row counts, and reads the vantage-point ids.
init_tables(D) ==
    IF D.has_counts THEN D
    ELSE [D EXCEPT !.has_counts = TRUE,
                   !.mvp_counts = [points |-> Len(D.mvp_points),
                                   vantage_points |-> Len(D.mvp_vantage_points),
                                   items |-> Len(D.mvp_items)]]

\* Database::Impl::Impl: opens the file.  temp.mvp_query is new for the
\* connection, the cached ids are those of mvp_vantage_points and no point or
\* partition statement is cached.
Impl(D) ==
    [db |-> [init_tables(D) EXCEPT !.mvp_query = {}],
     cache |-> Cache(sel_vp_ids(D), NoStmt, NoStmt)]

\* ------------------------------------------------------ the state machine
cache == Cache(vp_ids_, insert_point, partition_points)

SetCache(C) ==
    /\ vp_ids_' = C.vp_ids_
    /\ insert_point' = C.insert_point
    /\ partition_points' = C.partition_points

\* The record of a call.  A call that ended in a StorageError is recorded by
\* its operation and the step that failed; any other call by its arguments
\* and its result.
Call(op, value, item, radius, limit, failAt, err, result) ==
    IF err = "StorageError"
    THEN [NoCall EXCEPT !.op = op, !.failAt = failAt, !.err = err]
    ELSE [op |-> op, value |-> value, item |-> item, radius |-> radius,
          limit |-> limit, sample_size |-> 0, failAt |-> 0, err |-> err,
          result |-> result]

Init ==
    /\ db = Impl(EmptyDb).db
    /\ vp_ids_ = Impl(EmptyDb).cache.vp_ids_
    /\ insert_point = Impl(EmptyDb).cache.insert_point
    /\ partition_points = Impl(EmptyDb).cache.partition_points
    /\ last = NoCall

Insert(V) ==
    \E p_value \in V, item \in Items, failAt \in 0..4 :
        \E r \in {insert(db, cache, p_value, item, failAt)} :
            /\ db' = r.db
            /\ SetCache(r.cache)
            /\ last' = Call("insert", p_value, item, 0, 0, failAt, r.err, <<>>)

AddVantagePoint(V) ==
    \E vp_value \in V, failAt \in 0..(3 + Len(db.mvp_points)) :
        \E r \in {add_vantage_point(db, cache, vp_value, failAt)} :
            /\ db' = r.db
            /\ SetCache(r.cache)
            /\ last' = Call("add_vantage_point", vp_value, "", 0, 0, failAt,
                            r.err, <<>>)

Query(V) ==
    \E pt \in V, radius \in Radii, limit \in Limits, failAt \in 0..2 :
        \E r \in {query(db, cache, pt, radius, limit, failAt)} :
            /\ db' = r.db
            /\ SetCache(r.cache)
            /\ last' = Call("query", pt, "", radius, limit, failAt, r.err, r.result)

Open ==
    /\ db' = Impl(db).db
    /\ SetCache(Impl(db).cache)
    /\ last' = NoCall

Next ==
    \/ Insert(Values)
    \/ AddVantagePoint(Values)
    \/ Query(Values)
    \/ Open

Spec == Init /\ [][Next]_vars

\* The same machine over a domain whose distances can exceed INT_MAX.
NextOverflow ==
    \/ Insert(OverflowValues)
    \/ AddVantagePoint(OverflowValues)
    \/ Query(OverflowValues)
    \/ Open

SpecOverflow == Init /\ [][NextOverflow]_vars

\* The scenario: the three values are inserted under their keys, in any order,
\* A is registered, before, between or after the inserts, and A is queried.
ScenarioInsert ==
    \E pair \in ScenarioPairs :
        \E r \in {insert(db, cache, pair[1], pair[2], 0)} :
            /\ db' = r.db
            /\ SetCache(r.cache)
            /\ last' = Call("insert", pair[1], pair[2], 0, 0, 0, r.err, <<>>)

ScenarioRegister ==
    \E r \in {add_vantage_point(db, cache, ScenarioVantage, 0)} :
        /\ db' = r.db
        /\ SetCache(r.cache)
        /\ last' = Call("add_vantage_point", ScenarioVantage, "", 0, 0, 0,
                        r.err, <<>>)

ScenarioQuery ==
    \E radius \in ScenarioRadii, limit \in ScenarioLimits :
        \E r \in {query(db, cache, ScenarioVantage, radius, limit, 0)} :
            /\ db' = r.db
            /\ SetCache(r.cache)
            /\ last' = Call("query", ScenarioVantage, "", radius, limit, 0,
                            r.err, r.result)

NextScenario ==
    \/ ScenarioInsert
    \/ ScenarioRegister
    \/ ScenarioQuery

SpecScenario == Init /\ [][NextScenario]_vars

\* Variant of FindVantagePoint that registers the value it returns.
FindVantagePoint_register(V) ==
    \E sample_size \in SampleSizes, v \in V :
        \E r \in {add_vantage_point(db, cache, v, 0)} :
            /\ db' = r.db
            /\ SetCache(r.cache)
            /\ last' = [Call("find_vantage_point", "", "", 0, 0, 0, "none", <<v>>)
                           EXCEPT !.sample_size = sample_size]

\* find_vantage_point writes nothing; a process that ended is started again
\* on the same file.
FindVantagePoint(V) ==
    \E sample_size \in SampleSizes, failAt \in 0..1 :
        \E r \in find_vantage_point(db, V, sample_size, failAt) :
            /\ db' = IF r.err = "crash" THEN Impl(db).db ELSE db
            /\ SetCache(IF r.err = "crash" THEN Impl(db).cache ELSE cache)
            /\ last' = IF r.err = "StorageError"
                       THEN Call("find_vantage_point", "", "", 0, 0, failAt,
                                 r.err, r.result)
                       ELSE [Call("find_vantage_point", "", "", 0, 0, failAt,
                                  r.err, r.result)
                                EXCEPT !.sample_size = sample_size]

\* Inserts, registrations and suggestions of a vantage point.
NextSuggest ==
    \/ Insert(Values)
    \/ AddVantagePoint(Values)
    \/ FindVantagePoint(Values)
    \/ Open

SpecSuggest == Init /\ [][NextSuggest]_vars

\* Every operation of the index, with one value to register.
NextReadOnly ==
    \/ Insert(Values)
    \/ AddVantagePoint({"A"})
    \/ Query(Values)
    \/ FindVantagePoint(Values)
    \/ Open

SpecReadOnly == Init /\ [][NextReadOnly]_vars

\* add_vantage_point statement by statement.  While the transaction is open,
\* db holds its uncommitted writes and the call record holds the tables as
\* they were at its start (what a rollback restores), the new id and the
\* number of statements done: 0 after the INSERT of the vantage point, 1 after
\* ALTER TABLE, 1 + i after the UPDATE of the i-th point.  The member functions
\* of Database are synchronous: a call starts when no other is running.
Registering(vp_value, before, vp_id, done) ==
    [op |-> "registering", value |-> vp_value, before |-> before,
     vp_id |-> vp_id, done |-> done, err |-> "none"]

BeginRegistration(V) ==
    /\ last.op # "registering"
    /\ \E vp_value \in V, failAt \in 0..2 :
          \E r \in {insert_vantage_point_(db, vp_value, failAt)} :
              /\ db' = Transaction(db, r.db, r.err)
              /\ last' = IF r.err = "none"
                         THEN Registering(vp_value, db, r.id, 0)
                         ELSE Call("add_vantage_point", vp_value, "", 0, 0,
                                   failAt, r.err, <<>>)
    /\ UNCHANGED <<vp_ids_, insert_point, partition_points>>

\* Variant of RegistrationStep whose scan starts over after the last point.
RegistrationStep_rescan ==
    /\ last.op = "registering"
    /\ last.done <= Len(db.mvp_points)
    /\ \E fails \in BOOLEAN :
          IF fails
          THEN /\ db' = Transaction(last.before, db, "StorageError")
               /\ last' = Call("add_vantage_point", last.value, "", 0, 0,
                               3 + last.done, "StorageError", <<>>)
          ELSE /\ db' = IF last.done = 0
                        THEN add_points_col(db, last.vp_id)
                        ELSE update_points(db, last.vp_id, last.value, last.done)
               /\ last' = [last EXCEPT !.done =
                              IF @ = Len(db.mvp_points) /\ @ > 1 THEN 1 ELSE @ + 1]
    /\ UNCHANGED <<vp_ids_, insert_point, partition_points>>

RegistrationStep ==
    /\ last.op = "registering"
    /\ last.done <= Len(db.mvp_points)
    /\ \E fails \in BOOLEAN :
          IF fails
          THEN /\ db' = Transaction(last.before, db, "StorageError")
               /\ last' = Call("add_vantage_point", last.value, "", 0, 0,
                               3 + last.done, "StorageError", <<>>)
          ELSE /\ db' = IF last.done = 0
                        THEN add_points_col(db, last.vp_id)
                        ELSE update_points(db, last.vp_id, last.value, last.done)
               /\ last' = [last EXCEPT !.done = @ + 1]
    /\ UNCHANGED <<vp_ids_, insert_point, partition_points>>

CommitRegistration ==
    /\ last.op = "registering"
    /\ last.done = Len(db.mvp_points) + 1
    /\ db' = Transaction(last.before, db, "none")
    /\ last' = Call("add_vantage_point", last.value, "", 0, 0, 0, "none", <<>>)
    /\ UNCHANGED <<vp_ids_, insert_point, partition_points>>

NextRegistration ==
    \/ (last.op # "registering" /\ Insert(Values))
    \/ BeginRegistration(Values)
    \/ RegistrationStep
    \/ CommitRegistration
    \/ (last.op # "registering" /\ Query({"A"}))

SpecRegistration == Init /\ [][NextRegistration]_vars

\* A call that has started runs on: the next statement of an open transaction
\* is executed, and the commit after the last one.
FairSpecRegistration ==
    /\ SpecRegistration
    /\ WF_vars(RegistrationStep)
    /\ WF_vars(CommitRegistration)

\* The interval bounds as a function of their inputs: any distance d that a
\* uint32_t holds and any unsigned radius are drawn, and the bounds are
\* computed as query computes them.
BoundsCall(op, d, radius, lower, upper) ==
    [op |-> op, d |-> d, radius |-> radius, lower |-> lower, upper |-> upper]

InitBounds ==
    /\ db = Impl(EmptyDb).db
    /\ vp_ids_ = Impl(EmptyDb).cache.vp_ids_
    /\ insert_point = Impl(EmptyDb).cache.insert_point
    /\ partition_points = Impl(EmptyDb).cache.partition_points
    /\ \E d \in 0..UINT_MAX, radius \in 0..UINT_MAX :
          last = BoundsCall("input", d, radius, 0, 0)

Bounds ==
    /\ last.op = "input"
    /\ last' = BoundsCall("bounds", last.d, last.radius,
                          lower_bound(last.d, last.radius),
                          upper_bound(last.d, last.radius))
    /\ UNCHANGED <<db, vp_ids_, insert_point, partition_points>>

NextBounds == Bounds

SpecBounds == InitBounds /\ [][NextBounds]_vars

\* ----------------------------------------------------- views of the state
\* The Point store (with every embedding), the VantagePoint store, the Item
\* store and the Counters; temp.mvp_query is not one of them.
Stores(D) == [mvp_points |-> D.mvp_points, points_cols |-> D.points_cols,
              mvp_vantage_points |-> D.mvp_vantage_points,
              mvp_items |-> D.mvp_items, mvp_counts |-> D.mvp_counts]

PointValues(D) == {D.mvp_points[id].value : id \in DOMAIN D.mvp_points}
ItemPaths(D) == {D.mvp_items[i].path : i \in DOMAIN D.mvp_items}
PointId(D, value) == CHOOSE id \in DOMAIN D.mvp_points : D.mvp_points[id].value = value
ItemValue(D, i) == D.mvp_points[D.mvp_items[i].point_id].value

\* The keys an unbounded query returns in a state.
QueryKeys(D, C, pt, radius) == Range(query(D, C, pt, radius, 0, 0).result)

\* ------------------------------------------------------------- the claims

\* C1: query correctness.  After an unbounded query (limit 0) that returned,
\* a stored key is in the result if and only if the distance from the query
\* value to the value of the key's point is at most the radius.
C1_QueryCorrectness ==
    (last.op = "query" /\ last.err = "none" /\ last.limit = 0) =>
        \A i \in DOMAIN db.mvp_items :
            (db.mvp_items[i].path \in Range(last.result))
                <=> (Hash_distance(last.value, ItemValue(db, i)) <= last.radius)

\* C2: embedding completeness.  In every reachable state every stored point
\* has exactly one embedding entry per registered vantage point, and the entry
\* is the distance from that vantage point to the point's value.  (Holds under
\* Spec, where every distance fits an int; fails under SpecOverflow.)
C2_EmbeddingComplete ==
    \A id \in DOMAIN db.mvp_points :
        /\ DOMAIN db.mvp_points[id].d = DOMAIN db.mvp_vantage_points
        /\ \A c \in DOMAIN db.mvp_vantage_points :
              db.mvp_points[id].d[c] =
                  Hash_distance(db.mvp_vantage_points[c], db.mvp_points[id].value)

\* C3: monotonicity.  A successful registration of a vantage point leaves the
\* set of keys returned by every query (value, radius) as it was.
C3_Monotonicity ==
    [][(last'.op = "add_vantage_point" /\ last'.err = "none") =>
          \A pt \in Values, radius \in Radii :
              QueryKeys(db', cache', pt, radius) = QueryKeys(db, cache, pt, radius)]_vars

\* C4: idempotence of insert.  After a successful insert(value, item), a
\* second insert of the same pair, whether it returns or fails at any step,
\* leaves the Point store, the Item store and the three counters as the first
\* call left them.
C4_InsertIdempotent ==
    (last.op = "insert" /\ last.err = "none") =>
        \A failAt \in 0..4 :
            Stores(insert(db, cache, last.value, last.item, failAt).db) = Stores(db)

\* C4 witness: an insert of a new value under a new key has returned.
C4_Witness ==
    /\ last.op = "insert" /\ last.err = "none"
    /\ Len(db.mvp_points) = 2 /\ Len(db.mvp_items) = 2
    /\ last.value = db.mvp_points[2].value
    /\ last.item = db.mvp_items[2].path
    /\ db.mvp_items[2].point_id = 2

\* C5: uniqueness of vantage points.  A registration of a value that is
\* already a vantage point fails with DuplicateVantagePoint and leaves the
\* Point store, the VantagePoint store, the Item store and the Counters
\* unchanged.
C5_DuplicateVantagePoint ==
    [][(/\ last'.op = "add_vantage_point"
        /\ last'.err # "StorageError"
        /\ last'.value \in Range(db.mvp_vantage_points)) =>
          (last'.err = "DuplicateVantagePoint" /\ Stores(db') = Stores(db))]_vars

\* C5 witness: a registration has failed with DuplicateVantagePoint while
\* points with embeddings are stored.
C5_Witness ==
    /\ last.op = "add_vantage_point" /\ last.err = "DuplicateVantagePoint"
    /\ last.value \in Range(db.mvp_vantage_points)
    /\ Len(db.mvp_points) = 2

\* C6: the counters mirror the stores.  After the index is opened and after
\* every call, returned or failed, the three counters are the numbers of
\* points, vantage points and items, and no call changes a store's size, and
\* with it the counter, by more than one.
CountersMirror(D) ==
    /\ D.mvp_counts.points = Len(D.mvp_points)
    /\ D.mvp_counts.vantage_points = Len(D.mvp_vantage_points)
    /\ D.mvp_counts.items = Len(D.mvp_items)

C6_CountersMirror ==
    /\ CountersMirror(db)
    /\ [][/\ CountersMirror(db')
          /\ \A col \in {"points", "vantage_points", "items"} :
                db'.mvp_counts[col] - db.mvp_counts[col] \in {0, 1}]_vars

\* C6 witness: every counter has advanced and the last call failed after it
\* had created a point.
C6_Witness ==
    /\ db.mvp_counts.points = 1
    /\ db.mvp_counts.vantage_points = 2
    /\ db.mvp_counts.items = 2
    /\ last.op = "insert" /\ last.err = "StorageError" /\ last.failAt = 2

\* C7: insert is atomic.  An insert that fails at any step leaves the Point
\* store, the Item store and the Counters as they were before the call.
C7_InsertAtomic ==
    [][(last'.op = "insert" /\ last'.err # "none") =>
          Stores(db') = Stores(db)]_vars

\* C7 witness: an insert has failed at the update of the item counter, after
\* the item row was written, with a vantage point registered.
C7_Witness ==
    /\ last.op = "insert" /\ last.err = "StorageError" /\ last.failAt = 4
    /\ Len(db.mvp_vantage_points) = 1

\* C8: registration is all or nothing.  A registration that fails at any step
\* leaves the VantagePoint store, the vantage-point counter and every point's
\* embedding as before the call; and after any registration, returned or
\* failed, no vantage point's slot is filled for some points and left at the
\* column default for others.
SlotFilled(D, id, c) ==
    /\ c \in DOMAIN D.mvp_points[id].d
    /\ D.mvp_points[id].d[c] # DIST_DEFAULT

C8_RegistrationAtomic ==
    [][(last'.op = "add_vantage_point") =>
          /\ \A c \in DOMAIN db'.mvp_vantage_points :
                \/ \A id \in DOMAIN db'.mvp_points : SlotFilled(db', id, c)
                \/ \A id \in DOMAIN db'.mvp_points : ~SlotFilled(db', id, c)
          /\ (last'.err # "none") =>
                /\ db'.mvp_vantage_points = db.mvp_vantage_points
                /\ db'.mvp_counts.vantage_points = db.mvp_counts.vantage_points
                /\ db'.mvp_points = db.mvp_points
                /\ db'.points_cols = db.points_cols]_vars

\* C8 witness: a registration has failed at the second point of the backfill,
\* after the first point's slot was filled.
C8_Witness ==
    /\ last.op = "add_vantage_point" /\ last.err = "StorageError" /\ last.failAt = 5
    /\ Len(db.mvp_points) = 2
    /\ Len(db.mvp_vantage_points) = 0

\* C9: distance overflow is an error.  An insert that creates a point whose
\* distance to a registered vantage point is outside the int range fails with
\* DistanceOverflow, and stores nothing.
C9_DistanceOverflow ==
    [][(/\ last'.op = "insert"
        /\ last'.err # "StorageError"
        /\ last'.value \notin PointValues(db)
        /\ \E c \in DOMAIN db.mvp_vantage_points :
              Hash_distance(db.mvp_vantage_points[c], last'.value) > INT_MAX) =>
          (last'.err = "DistanceOverflow" /\ Stores(db') = Stores(db))]_vars

\* C10: a stored value under a new key.  An insert of a value that is already
\* a point, under a key that is not stored, leaves the points and the point
\* counter unchanged, appends one item that references the existing point and
\* adds one to the item counter.
C10_ExistingPointNewKey ==
    [][(/\ last'.op = "insert"
        /\ last'.err = "none"
        /\ last'.value \in PointValues(db)
        /\ last'.item \notin ItemPaths(db)) =>
          /\ db'.mvp_points = db.mvp_points
          /\ db'.mvp_counts.points = db.mvp_counts.points
          /\ db'.mvp_items = Append(db.mvp_items,
                 [path |-> last'.item, point_id |-> PointId(db, last'.value)])
          /\ db'.mvp_counts.items = db.mvp_counts.items + 1]_vars

\* C10 witness: the same value was inserted under both keys: one point, two
\* items of that point.
C10_Witness ==
    /\ last.op = "insert" /\ last.err = "none" /\ last.item = "f2"
    /\ Len(db.mvp_points) = 1
    /\ db.mvp_counts.points = 1
    /\ db.mvp_counts.items = 2
    /\ \A i \in DOMAIN db.mvp_items : db.mvp_items[i].point_id = 1
    /\ ItemPaths(db) = {"f1", "f2"}

\* C11: the scenario.  With A, B and C stored and A the one vantage point,
\* query(A, 3, 10) returns the keys of A and B, nearest first (A is at distance
\* 0 of itself, B at 2, C at 10), query(A, 0, 10) returns the key of A, and a
\* registration of A fails with DuplicateVantagePoint and changes no store.
ScenarioDone ==
    /\ PointValues(db) = {"A", "B", "C"}
    /\ db.mvp_vantage_points = <<"A">>

C11_Scenario ==
    [][ScenarioDone =>
          /\ (last'.op = "query" /\ last'.radius = 3) =>
                last'.result = <<"kA", "kB">>
          /\ (last'.op = "query" /\ last'.radius = 0) =>
                last'.result = <<"kA">>
          /\ (last'.op = "add_vantage_point") =>
                (last'.err = "DuplicateVantagePoint" /\ Stores(db') = Stores(db))]_vars

\* C11 as the scenario is written: query(A, 3, 10) returns the key of B only.
C11_ScenarioAsWritten ==
    [][ScenarioDone =>
          /\ (last'.op = "query" /\ last'.radius = 3) =>
                Range(last'.result) = {"kB"}
          /\ (last'.op = "query" /\ last'.radius = 0) =>
                Range(last'.result) = {"kA"}
          /\ (last'.op = "add_vantage_point") =>
                last'.err = "DuplicateVantagePoint"]_vars

\* C11 witness: the scenario has run to its query of radius 3; the filter on
\* the column of A has pruned C.
C11_Witness ==
    /\ ScenarioDone
    /\ last.op = "query" /\ last.radius = 3 /\ last.limit = 10
    /\ last.result = <<"kA", "kB">>
    /\ {q.id : q \in db.mvp_query} = {PointId(db, "A"), PointId(db, "B")}

\* C12: a suggestion on an empty Point store fails.  After
\* find_vantage_point, for any sample size, with no point stored, the call has
\* failed with InsufficientData and has returned no value.
C12_InsufficientData ==
    (/\ last.op = "find_vantage_point"
     /\ last.err # "StorageError"
     /\ db.mvp_points = <<>>) =>
        (last.err = "InsufficientData" /\ last.result = <<>>)

\* C13: results are ordered nearest first.  In the sequence a query returned,
\* for any two positions i < j the distance from the query value to the value
\* of the point of the i-th key is at most that of the j-th key.
KeyValue(D, key) ==
    ItemValue(D, CHOOSE i \in DOMAIN D.mvp_items : D.mvp_items[i].path = key)

C13_NearestFirst ==
    (last.op = "query" /\ last.err = "none") =>
        \A i, j \in DOMAIN last.result :
            i < j => Hash_distance(last.value, KeyValue(db, last.result[i]))
                        <= Hash_distance(last.value, KeyValue(db, last.result[j]))

\* C13 witness: a query has returned two keys at different distances, the
\* nearer key being the item that was stored later.
C13_Witness ==
    /\ last.op = "query" /\ last.err = "none"
    /\ last.result = <<"f2", "f1">>
    /\ db.mvp_items[1].path = "f1"
    /\ Hash_distance(last.value, KeyValue(db, "f2"))
          < Hash_distance(last.value, KeyValue(db, "f1"))

\* C14: limit handling.  A query with limit > 0 returns at most limit keys,
\* all of them matches (keys whose point is within the radius), as many as
\* there are matches up to limit, and no omitted match is strictly nearer than
\* a returned key; a query with limit 0 returns every match.
MatchKeys(D, pt, radius) ==
    {D.mvp_items[i].path : i \in
        {k \in DOMAIN D.mvp_items : Hash_distance(pt, ItemValue(D, k)) <= radius}}

C14_Limit ==
    (last.op = "query" /\ last.err = "none") =>
        LET matches == MatchKeys(db, last.value, last.radius)
            returned == Range(last.result)
        IN  IF last.limit = 0
            THEN returned = matches
            ELSE /\ Len(last.result) <= last.limit
                 /\ returned \subseteq matches
                 /\ Cardinality(returned) = Len(last.result)
                 /\ \/ Len(last.result) = last.limit
                    \/ returned = matches
                 /\ \A m \in matches \ returned, r \in returned :
                       Hash_distance(last.value, KeyValue(db, m))
                           >= Hash_distance(last.value, KeyValue(db, r))

\* C15: item re-pointing.  A returned insert(V2, K) of a key K that is stored
\* with a point other than the point of V2 overwrites the point_id of K's item
\* in place: one item has key K, it references the point of V2, every other
\* item and the number of items are as before, and the item counter is
\* unchanged.  Any returned insert adds one to the item counter if its key was
\* not stored, and nothing otherwise.
ItemsOf(D, key) == {i \in DOMAIN D.mvp_items : D.mvp_items[i].path = key}

C15_ItemRepointing ==
    [][(last'.op = "insert" /\ last'.err = "none") =>
          /\ db'.mvp_counts.items = db.mvp_counts.items +
                (IF last'.item \in ItemPaths(db) THEN 0 ELSE 1)
          /\ (/\ last'.item \in ItemPaths(db)
              /\ KeyValue(db, last'.item) # last'.value) =>
                /\ Cardinality(ItemsOf(db', last'.item)) = 1
                /\ ItemsOf(db', last'.item) = ItemsOf(db, last'.item)
                /\ KeyValue(db', last'.item) = last'.value
                /\ Len(db'.mvp_items) = Len(db.mvp_items)
                /\ \A i \in DOMAIN db.mvp_items :
                      db.mvp_items[i].path # last'.item =>
                          db'.mvp_items[i] = db.mvp_items[i]]_vars

\* C15 witness: the one key was inserted with A and then with B: two points,
\* one item, and the item references the second point.
C15_Witness ==
    /\ last.op = "insert" /\ last.err = "none" /\ last.item = "f1"
    /\ Len(db.mvp_points) = 2
    /\ db.mvp_items = <<[path |-> "f1", point_id |-> 2]>>
    /\ last.value = db.mvp_points[2].value
    /\ db.mvp_counts.items = 1

\* C16: the duplicate check looks at the vantage points only.  A registration
\* that met no storage failure fails with DuplicateVantagePoint exactly when
\* its value is a vantage point already; otherwise it returns and the value is
\* the newest vantage point, whether or not the value is the value of a point.
C16_DuplicateCheckScope ==
    [][(last'.op = "add_vantage_point" /\ last'.err # "StorageError") =>
          IF last'.value \in Range(db.mvp_vantage_points)
          THEN last'.err = "DuplicateVantagePoint"
          ELSE /\ last'.err = "none"
               /\ db'.mvp_vantage_points =
                      Append(db.mvp_vantage_points, last'.value)]_vars

\* C16 witness: a value that is the value of a stored point has been
\* registered, after another value that is no point's value.
C16_Witness ==
    /\ last.op = "add_vantage_point" /\ last.err = "none"
    /\ Len(db.mvp_vantage_points) = 2
    /\ last.value = db.mvp_vantage_points[2]
    /\ last.value \in PointValues(db)
    /\ db.mvp_vantage_points[1] \notin PointValues(db)

\* C17: exact re-verification.  After a query that returned, no row of the
\* working set temp.mvp_query is a point whose distance to the query value
\* exceeds the radius, and no returned key is the key of such a point.
C17_ExactReverification ==
    (last.op = "query" /\ last.err = "none") =>
        /\ \A q \in db.mvp_query :
              Hash_distance(last.value, db.mvp_points[q.id].value) <= last.radius
        /\ \A i \in DOMAIN last.result :
              Hash_distance(last.value, KeyValue(db, last.result[i])) <= last.radius

\* C18: the prune has no false negative.  After a query that returned, every
\* stored point whose distance to the query value is at most the radius has,
\* for every vantage point, its embedding entry inside the interval bound for
\* that vantage point, and is a row of the candidate set (every candidate is a
\* row of temp.mvp_query).
InInterval(D, id, c, pt, radius) ==
    LET d == ToUint(get_distance(D.mvp_vantage_points[c], pt))
    IN  /\ c \in DOMAIN D.mvp_points[id].d
        /\ D.mvp_points[id].d[c] >= lower_bound(d, radius)
        /\ D.mvp_points[id].d[c] <= upper_bound(d, radius)

C18_NoFalseNegative ==
    (last.op = "query" /\ last.err = "none") =>
        \A id \in DOMAIN db.mvp_points :
            Hash_distance(last.value, db.mvp_points[id].value) <= last.radius =>
                /\ \A c \in DOMAIN db.mvp_vantage_points :
                      InInterval(db, id, c, last.value, last.radius)
                /\ \E q \in db.mvp_query : q.id = id

\* C19: bound clamping.  For every distance d and every radius, the interval
\* bound to the filter is [max(0, d - radius), min(UINT_MAX, d + radius)],
\* UINT_MAX being the largest uint32_t: the lower bound is clamped at 0, the
\* upper bound at UINT_MAX, and neither wraps around: lower <= d <= upper.
Max(a, b) == IF a >= b THEN a ELSE b
Min(a, b) == IF a <= b THEN a ELSE b

C19_BoundClamping ==
    (last.op = "bounds") =>
        /\ last.lower = Max(0, last.d - last.radius)
        /\ last.upper = Min(UINT_MAX, last.d + last.radius)
        /\ 0 <= last.lower /\ last.lower <= last.d
        /\ last.d <= last.upper /\ last.upper <= UINT_MAX

\* C19 as claimed: for a distance d of the distance domain 0..DIST_MAX, DIST_MAX
\* the largest int32_t, the upper bound is clamped at DIST_MAX and no bound
\* leaves the distance domain.
C19_ClampAtDistMax ==
    (last.op = "bounds" /\ last.d <= INT_MAX) =>
        /\ last.lower = Max(0, last.d - last.radius)
        /\ last.upper = Min(INT_MAX, last.d + last.radius)
        /\ 0 <= last.lower /\ last.upper <= INT_MAX

\* C19 witness: d + radius does not fit a uint32_t and the upper bound is
\* clamped, while the lower bound is not.
C19_Witness ==
    /\ last.op = "bounds"
    /\ last.d + last.radius > UINT_MAX
    /\ last.upper = UINT_MAX
    /\ last.lower > 0

\* C20: a query with no vantage point.  After a query that returned while no
\* vantage point is registered, the partition statement has no predicate,
\* every stored point is a row of the candidate set, and an unbounded query has
\* returned exactly the keys whose point is within the radius.
C20_NoVantagePoints ==
    (last.op = "query" /\ last.err = "none" /\ db.mvp_vantage_points = <<>>) =>
        /\ partition_points = <<>>
        /\ {q.id : q \in db.mvp_query} = DOMAIN db.mvp_points
        /\ (last.limit = 0) =>
              Range(last.result) = MatchKeys(db, last.value, last.radius)

\* C21: no cached statement is executed stale.  In every reachable state, the
\* insert statement that an insert of a new value executes and the partition
\* statement that a query executes (the cached one, or the one made for the
\* call) are compiled against the ordered id list of the vantage points as
\* the store holds it at the call.
C21_NoStaleStatement ==
    /\ \A p_value \in Values \ PointValues(db) :
          insert_point_(db, cache, p_value, 0).cache.insert_point = sel_vp_ids(db)
    /\ \A pt \in Values, radius \in Radii :
          query(db, cache, pt, radius, 0, 0).cache.partition_points = sel_vp_ids(db)

\* C21 witness: both statements are cached, compiled against an id list that
\* a registration has since made outdated, and a value is left to insert.
C21_Witness ==
    /\ insert_point # NoStmt /\ partition_points # NoStmt
    /\ vp_ids_ # sel_vp_ids(db)
    /\ insert_point # sel_vp_ids(db) /\ partition_points # sel_vp_ids(db)
    /\ Values \ PointValues(db) # {}

\* C22: the cache after a registration.  A registration, returned or failed,
\* leaves the cached id list and both cached statements as they were; the
\* next returned insert that creates a point, and the next returned query,
\* replace the cached id list by the list of the store, which includes the new
\* id, compile the statement they execute against it, and drop the other
\* statement if the cached list was outdated.
C22_LazyInvalidation ==
    [][/\ (last'.op = "add_vantage_point") => cache' = cache
       /\ (/\ last'.op = "insert" /\ last'.err = "none"
           /\ last'.value \notin PointValues(db)) =>
              /\ vp_ids_' = sel_vp_ids(db)
              /\ insert_point' = sel_vp_ids(db)
              /\ (vp_ids_ # sel_vp_ids(db)) => partition_points' = NoStmt
       /\ (last'.op = "query" /\ last'.err = "none") =>
              /\ vp_ids_' = sel_vp_ids(db)
              /\ partition_points' = sel_vp_ids(db)
              /\ (vp_ids_ # sel_vp_ids(db)) => insert_point' = NoStmt]_vars

\* C22 as claimed: when a registration has returned, the cached id list is no
\* longer the list without the new id, and no statement built against a list
\* without the new id is cached any more.
C22_InvalidatedOnReturn ==
    [][(last'.op = "add_vantage_point" /\ last'.err = "none") =>
          /\ vp_ids_' # sel_vp_ids(db)
          /\ insert_point' \in {NoStmt, sel_vp_ids(db')}
          /\ partition_points' \in {NoStmt, sel_vp_ids(db')}]_vars

\* C22 witness: a registration has returned while both statements were cached;
\* they and the cached id list are those of the list without the new id.
C22_Witness ==
    /\ last.op = "add_vantage_point" /\ last.err = "none"
    /\ Len(db.mvp_vantage_points) = 2
    /\ vp_ids_ = <<1>>
    /\ insert_point = <<1>> /\ partition_points = <<1>>

\* C23: point values are unique.  In every reachable state no two points have
\* the same value, and a step adds a point only if it is a returned insert of
\* a value that was not stored; it adds that one point.
UniqueValues(D) ==
    \A id1, id2 \in DOMAIN D.mvp_points :
        D.mvp_points[id1].value = D.mvp_points[id2].value => id1 = id2

C23_PointValuesUnique ==
    /\ UniqueValues(db)
    /\ [][/\ UniqueValues(db')
          /\ (Len(db'.mvp_points) # Len(db.mvp_points)) =>
                /\ last'.op = "insert" /\ last'.err = "none"
                /\ last'.value \notin PointValues(db)
                /\ Len(db'.mvp_points) = Len(db.mvp_points) + 1
                /\ db'.mvp_points[Len(db'.mvp_points)].value = last'.value]_vars

\* C23 witness: an insert of the value of the first point, under the second
\* key, has returned after the first key had moved to the second point; there
\* are still two points.
C23_Witness ==
    /\ last.op = "insert" /\ last.err = "none" /\ last.item = "f2"
    /\ Len(db.mvp_points) = 2
    /\ last.value = db.mvp_points[1].value
    /\ db.mvp_items = <<[path |-> "f1", point_id |-> 2],
                        [path |-> "f2", point_id |-> 1]>>

\* C24: the read-only operations change nothing persistent.  A query and a
\* find_vantage_point, returned or failed, leave the Point store with its
\* embeddings, the VantagePoint store, the Item store and the Counters as they
\* were; in particular the value find_vantage_point returns is not registered.
C24_ReadOnly ==
    [][(last'.op \in {"query", "find_vantage_point"}) =>
          /\ Stores(db') = Stores(db)
          /\ Range(db'.mvp_vantage_points) = Range(db.mvp_vantage_points)]_vars

\* C24 witness: find_vantage_point has returned a value that is a stored point
\* and no vantage point, after a query had filled temp.mvp_query.
C24_Witness ==
    /\ last.op = "find_vantage_point" /\ last.err = "none"
    /\ last.result # <<>>
    /\ last.result[1] \in PointValues(db)
    /\ last.result[1] \notin Range(db.mvp_vantage_points)
    /\ db.mvp_query # {}

\* C25: the working set is transient.  Once a query has returned, the working
\* set temp.mvp_query holds no entry.
C25_WorkingSetTransient ==
    (last.op = "query" /\ last.err = "none") => db.mvp_query = {}

\* C26: a partial registration is never visible.  With add_vantage_point taken
\* statement by statement: no insert and no query step is taken while the
\* transaction of a registration is open; whenever none is open, and so in
\* every state an insert or a query starts from, every stored point has the
\* slot of every registered vantage point populated; and a registration that
\* commits leaves the tables that the whole call computes.
Populated(D) ==
    \A c \in DOMAIN D.mvp_vantage_points, id \in DOMAIN D.mvp_points :
        SlotFilled(D, id, c)

C26_NoPartialRegistration ==
    [][/\ (last'.op # "registering") => Populated(db')
       /\ (last'.op \in {"insert", "query"}) =>
             (last.op # "registering" /\ Populated(db))
       /\ (last.op = "registering" /\ last'.op = "add_vantage_point") =>
             db' = add_vantage_point(last.before, cache, last.value,
                                     last'.failAt).db]_vars

\* C26 witness: the transaction of a registration is open and the backfill
\* has populated the new slot of the first point but not of the second.
C26_Witness ==
    /\ last.op = "registering"
    /\ Len(db.mvp_points) = 2
    /\ SlotFilled(db, 1, last.vp_id)
    /\ ~SlotFilled(db, 2, last.vp_id)
    /\ db.mvp_vantage_points[last.vp_id] = last.value

\* C27: every operation finishes.  With add_vantage_point taken statement by
\* statement (its backfill one point at a time): a registration whose
\* transaction is open eventually returns or fails, and then no transaction is
\* open; a registration, insert or query that fails leaves the stores as they
\* were before the call.
C27_OperationsFinish ==
    /\ (last.op = "registering") ~> (last.op = "add_vantage_point")
    /\ [][(/\ last'.op \in {"insert", "add_vantage_point", "query"}
           /\ last'.err # "none") =>
             Stores(db') = Stores(IF last.op = "registering"
                                  THEN last.before ELSE db)]_vars

\* C27 witness: a registration has committed after its backfill went over two
\* points, with an earlier vantage point registered.
C27_Witness ==
    /\ last.op = "add_vantage_point" /\ last.err = "none"
    /\ Len(db.mvp_points) = 2
    /\ Len(db.mvp_vantage_points) = 2
    /\ db.mvp_vantage_points[2] = last.value
    /\ Populated(db)

\* C28: queries do not leak into each other.  In every reachable state,
\* whatever rows earlier queries, returned or failed, have left in
\* temp.mvp_query and whatever statements are cached, a query returns what
\* the same query returns on a new connection to the same stores, whose
\* temp.mvp_query is empty.
C28_NoLeak ==
    \A pt \in Values, radius \in Radii, limit \in Limits :
        query(db, cache, pt, radius, limit, 0).result
            = query(Impl(db).db, Impl(db).cache, pt, radius, limit, 0).result

\* C28 witness: an earlier query has left rows in temp.mvp_query, and there is
\* a query whose candidates are other points than those rows.
C28_Witness ==
    /\ last.op = "query"
    /\ db.mvp_query # {}
    /\ \E pt \in Values, radius \in Radii :
          LET rows == query(db, cache, pt, radius, 0, 0).db.mvp_query
          IN  /\ rows # {}
              /\ {q.id : q \in rows} \cap {q.id : q \in db.mvp_query} = {}

\* C29: referential integrity of the items.  In every reachable state the
\* point_id of every item is the id of a stored point, and no two items have
\* the same key, so a key maps to exactly one point.
C29_ReferentialIntegrity ==
    /\ \A i \in DOMAIN db.mvp_items :
          db.mvp_items[i].point_id \in DOMAIN db.mvp_points
    /\ \A i, j \in DOMAIN db.mvp_items :
          db.mvp_items[i].path = db.mvp_items[j].path => i = j

\* C29 witness: the key of the first point has moved to the second point and
\* the other key was inserted with it: two items, both of the second point,
\* none of the first.
C29_Witness ==
    /\ last.op = "insert" /\ last.err = "none"
    /\ Len(db.mvp_points) = 2
    /\ Len(db.mvp_items) = 2
    /\ \A i \in DOMAIN db.mvp_items : db.mvp_items[i].point_id = 2
    /\ db.mvp_counts.items = 2

=============================================================================
